---- MODULE Spec2Model ----
(***************************************************************************)
(* Model of the crawl engine of doc-export (src/src/crawler.ts):           *)
(* ParallelCrawler, its visited set, link filter, stop flag and the        *)
(* p-queue task queue it drives.                                           *)
(*                                                                         *)
(* Granularity.  JavaScript runs one handler at a time; a handler is the   *)
(* synchronous code between two suspension points together with the        *)
(* microtasks it leaves behind.  The suspension points of the crawler are  *)
(* `await fs.mkdir` (crawler.ts:60), `await fetch` / `await                *)
(* response.text()` (crawler.ts:267,280), `await this.queue.onEmpty()`     *)
(* (crawler.ts:82) and the run-time timer (crawler.ts:31).  Each action    *)
(* below is one such handler, taken whole.                                 *)
(***************************************************************************)
EXTENDS Integers, Sequences, FiniteSets, TLC

\* ------------------------------------------------------------------ bounds
MaxConcurrency == 2
MaxUrlsBound == 3

\* ------------------------------------------------------------- URL strings
\* A URL string is modelled by its parts: host, pathname (a sequence of
\* tokens, "/" and "." being the separator characters), the number of
\* characters of its query string (0: none) and whether it has a fragment.
SeedHost == "ex.com"
OtherHost == "other.org"

MkUrl(h, p, q, f) == [host |-> h, path |-> p, q |-> q, frag |-> f]

UrlA == MkUrl(SeedHost, <<"/", "a">>, 0, FALSE)
UrlB == MkUrl(SeedHost, <<"/", "b">>, 0, FALSE)
UrlC == MkUrl(SeedHost, <<"/", "c">>, 0, FALSE)
UrlAq == MkUrl(SeedHost, <<"/", "a">>, 3, FALSE)
UrlBf == MkUrl(SeedHost, <<"/", "b">>, 0, TRUE)
UrlX == MkUrl(OtherHost, <<"/", "a">>, 0, FALSE)
UrlPdf == MkUrl(SeedHost, <<"/", "doc", ".", "pdf">>, 0, FALSE)
UrlJsUp == MkUrl(SeedHost, <<"/", "b", ".", "JS">>, 0, FALSE)
UrlD == MkUrl(SeedHost, <<"/", "d">>, 0, FALSE)
UrlDot == MkUrl(SeedHost, <<"/", ".", "js">>, 0, FALSE)
UrlDq19 == MkUrl(SeedHost, <<"/", "d">>, 19, FALSE)
UrlDq20 == MkUrl(SeedHost, <<"/", "d">>, 20, FALSE)
UrlDq21 == MkUrl(SeedHost, <<"/", "d">>, 21, FALSE)

\* A string that is no absolute URL: it has no scheme and no host.
NotAUrl == MkUrl("", <<"a">>, 0, FALSE)

\* new URL(str) returns for an absolute URL and throws a TypeError otherwise.
IsAbsoluteUrl(u) == u.host # ""

\* The seeds a run may be started with.
Seeds == {UrlA, UrlAq}

\* What a fetched page may link to (the absolute URLs fetchPage extracts).
LinkLists ==
  { <<>>, <<UrlB>>, <<UrlA>>, <<UrlB, UrlC>>, <<UrlAq, UrlBf>>,
    <<UrlX, UrlPdf>>, <<UrlJsUp, UrlB>>, <<UrlB, UrlD, UrlX>>,
    <<UrlDot, UrlPdf>>, <<UrlDq21, UrlDq20, UrlDq19>> }

\* ------------------------------------------------------------------- state
VARIABLES
  options,      \* the command line options, as the strings they were given
  config,       \* this.config of the crawler; NoConfig before construction
  seedUrl,      \* the <url> argument of the command line, passed to crawl()
  pc,           \* position of crawl(): "mkdir", "seed", "drain", "returned";
                \* of the command line before it: "cli", "outdir", and
                \* "exit1", "exit0" once the process has exited
  timerFired,   \* the maxRunTime timer of the constructor has fired
  visited,      \* this.visited
  bloomFilter,  \* this.bloomFilter: the set of bits that are set
  urlCount,     \* this.urlCount
  shouldStop,   \* this.shouldStop
  queue,        \* p-queue: tasks waiting to start (the URL each was added for)
  isPaused,     \* p-queue: paused
  pending,      \* p-queue: tasks started and not finished
  inflight,     \* processUrl calls suspended in fetchPage: the URL, whether
                \* the call is a queue job, the await it is suspended in
                \* ("response": fetch(), "body": response.text()) and
                \* whether its abort timer is pending
  results,      \* the results array of crawl()
  retval,       \* the collection as it was when crawl() returned
  fetched,      \* history: URLs a fetch was issued for, in order
  enqueued,     \* history: URLs a task was ever added to the queue for
  requeued,     \* history: URLs a task was added for when the URL, query
                \* and fragment stripped, was in this.visited already
  stopSnap,     \* history: the reason of the stop and, as they were when the
                \* stop flag was set, urlCount, visited, fetched and the
                \* numbers of tasks waiting and in flight
  convPc,       \* position of DocumentConverter.processPages: "idle" (not
                \* called), "mkdir", "write", "index", "done", "failed"
  convArgs,     \* its arguments: pages and splitPages
  convPos,      \* the page of the loop whose file is being written
  convFiles     \* the page files on disk: path and the page written last

crawlVars == <<options, config, seedUrl, pc, timerFired, visited, bloomFilter,
               urlCount, shouldStop, queue, isPaused, pending, inflight,
               results, retval, fetched, enqueued, requeued, stopSnap>>

convVars == <<convPc, convArgs, convPos, convFiles>>

vars == <<options, config, seedUrl, pc, timerFired, visited, bloomFilter, urlCount,
          shouldStop, queue, isPaused, pending, inflight, results, retval,
          fetched, enqueued, requeued, stopSnap, convPc, convArgs, convPos,
          convFiles>>

NoArgs == [pages |-> <<>>, splitPages |-> "none"]

NoSnap == [set |-> FALSE, reason |-> "", pc |-> "", urlCount |-> 0, visited |-> {},
           fetched |-> <<>>, waiting |-> 0, running |-> 0]
NotReturned == [returned |-> FALSE, pages |-> <<>>]

\* ---------------------------------------------------------- pure functions
Max(S) == CHOOSE x \in S : \A y \in S : y <= x

\* url.split('?')[0].split('#')[0]
Normalize(u) == [u EXCEPT !.q = 0, !.frag = FALSE]

\* new URL(seedUrl).hostname
HostName(u) == u.host

\* String.prototype.toLowerCase on the tokens of an extension.
ToLower(tok) ==
  CASE tok = "JS" -> "js"
    [] tok = "PDF" -> "pdf"
    [] tok = "HTML" -> "html"
    [] tok = "Home" -> "home"
    [] tok = "Page" -> "page"
    [] OTHER -> tok

LowerSeq(s) == [i \in 1..Len(s) |-> ToLower(s[i])]

\* path.extname: the text from the last "." of the last path segment to its
\* end (trailing slashes ignored); empty when the segment has no ".", when the
\* "." is its first character, or when the segment is "..".
ExtName(p) ==
  LET NonSlash == {i \in 1..Len(p) : p[i] # "/"}
  IN IF NonSlash = {} THEN <<>>
     ELSE
       LET end == Max(NonSlash)
           Slashes == {i \in 1..end : p[i] = "/"}
           startPart == IF Slashes = {} THEN 1 ELSE Max(Slashes) + 1
           Dots == {i \in startPart..end : p[i] = "."}
       IN IF Dots = {} THEN <<>>
          ELSE
            LET startDot == Max(Dots)
                preDotState == IF startDot = startPart THEN 0
                               ELSE IF p[startPart] = "." THEN 1 ELSE -1
            IN IF \/ preDotState = 0
                  \/ (preDotState = 1 /\ startDot = end /\ startDot = startPart + 1)
               THEN <<>>
               ELSE SubSeq(p, startDot, end)

DeniedExtensions ==
  { <<".", "jpg">>, <<".", "jpeg">>, <<".", "png">>, <<".", "gif">>,
    <<".", "pdf">>, <<".", "zip">>, <<".", "css">>, <<".", "js">> }

MaxSearchLength == 20

\* url.search: "?" followed by the query, empty when there is no query.
SearchLength(u) == IF u.q = 0 THEN 0 ELSE u.q + 1

\* A prefix is a host and the leading tokens of a path.
IsPrefixSeq(a, b) == Len(a) <= Len(b) /\ SubSeq(b, 1, Len(a)) = a

StartsWith(u, prefix) == u.host = prefix.host /\ IsPrefixSeq(prefix.path, u.path)

SomePrefix(u, prefixes) == \E i \in 1..Len(prefixes) : StartsWith(u, prefixes[i])

\* Mutant of AdmitLink: the same-domain rule is missing.
AdmitLinkAnyDomain(link, baseDomain) ==
  /\ LowerSeq(ExtName(link.path)) \notin DeniedExtensions
  /\ ~(SearchLength(link) > 0 /\ SearchLength(link) > MaxSearchLength)
  /\ (Len(config.allowedPrefixes) > 0 => SomePrefix(link, config.allowedPrefixes))
  /\ (Len(config.ignorePrefixes) > 0 => ~SomePrefix(link, config.ignorePrefixes))

\* Mutant of AdmitLink: the file-extension rule is missing.
AdmitLinkAnyExtension(link, baseDomain) ==
  /\ ~(config.sameDomain /\ link.host # baseDomain)
  /\ ~(SearchLength(link) > 0 /\ SearchLength(link) > MaxSearchLength)
  /\ (Len(config.allowedPrefixes) > 0 => SomePrefix(link, config.allowedPrefixes))
  /\ (Len(config.ignorePrefixes) > 0 => ~SomePrefix(link, config.ignorePrefixes))

\* Mutant of AdmitLink: the allow-list rule is missing.
AdmitLinkNoAllowList(link, baseDomain) ==
  /\ ~(config.sameDomain /\ link.host # baseDomain)
  /\ LowerSeq(ExtName(link.path)) \notin DeniedExtensions
  /\ ~(SearchLength(link) > 0 /\ SearchLength(link) > MaxSearchLength)
  /\ (Len(config.ignorePrefixes) > 0 => ~SomePrefix(link, config.ignorePrefixes))

\* Mutant of AdmitLink: the length of the query is taken without its "?".
AdmitLinkQueryWithoutMark(link, baseDomain) ==
  /\ ~(config.sameDomain /\ link.host # baseDomain)
  /\ LowerSeq(ExtName(link.path)) \notin DeniedExtensions
  /\ ~(link.q > 0 /\ link.q > MaxSearchLength)
  /\ (Len(config.allowedPrefixes) > 0 => SomePrefix(link, config.allowedPrefixes))
  /\ (Len(config.ignorePrefixes) > 0 => ~SomePrefix(link, config.ignorePrefixes))

\* The callback of links.filter in filterLinks: TRUE when the link is kept.
\* (Every link of the model is an http(s) URL that parses.)
AdmitLink(link, baseDomain) ==
  /\ ~(config.sameDomain /\ link.host # baseDomain)
  /\ LowerSeq(ExtName(link.path)) \notin DeniedExtensions
  /\ ~(SearchLength(link) > 0 /\ SearchLength(link) > MaxSearchLength)
  /\ (Len(config.allowedPrefixes) > 0 => SomePrefix(link, config.allowedPrefixes))
  /\ (Len(config.ignorePrefixes) > 0 => ~SomePrefix(link, config.ignorePrefixes))

\* filterLinks keeps the original strings of the admitted links, in order.
filterLinks(links, currentUrl, baseDomain) ==
  LET Keep(link) == AdmitLink(link, baseDomain)
  IN SelectSeq(links, Keep)

\* -------------------------------------------------------------- visited set
\* The bit positions the Bloom filter's hash functions yield for a string.
\* /c collides with the union of /a and /b, so the filter has false positives.
Bits == 1..6

BloomHash(u) ==
  CASE u = UrlA -> {1, 2}
    [] u = UrlB -> {2, 3}
    [] u = UrlC -> {1, 3}
    [] u = UrlAq -> {1, 4}
    [] u = UrlBf -> {3, 5}
    [] u = UrlX -> {4, 5}
    [] u = UrlD -> {4, 6}
    [] u = UrlDot -> {2, 6}
    [] OTHER -> {5, 6}

BloomHas(bits, u) == BloomHash(u) \subseteq bits

\* Mutant of isVisited: the Bloom filter is not consulted.
isVisitedExactOnly(s, url) == url \in s.visited

isVisited(s, url) == url \in s.visited \/ BloomHas(s.bloomFilter, url)

\* Mutant of markVisited: the URL is not recorded.
markVisitedDropped(s, url) == s

\* Mutant of markVisited: the URL replaces what was recorded before.
markVisitedReplaces(s, url) ==
  [s EXCEPT !.visited = {url},
            !.bloomFilter = BloomHash(url)]

markVisited(s, url) ==
  [s EXCEPT !.visited = @ \cup {url},
            !.bloomFilter = @ \cup BloomHash(url)]

\* ------------------------------------------------------------ engine steps
\* The operators below transform a record s of the crawler's and the queue's
\* fields.  Two fields exist only inside a handler: finished counts the queue
\* jobs whose processUrl has returned and whose completion (p-queue's next())
\* is a microtask still to run; emptyEvt records that the queue emitted
\* 'empty'.

ReasonTime == "Reached maximum run time"
ReasonUrls == "Reached maximum number of URLs"

\* Mutant of stopCrawling: the queue is paused without being cleared.
stopCrawlingNoClear(s, reason) ==
  IF ~s.shouldStop
  THEN [s EXCEPT !.shouldStop = TRUE,
                 !.isPaused = TRUE,
                 !.stopSnap = [set |-> TRUE, reason |-> reason, pc |-> pc,
                               urlCount |-> s.urlCount, visited |-> s.visited,
                               fetched |-> s.fetched, waiting |-> Len(s.queue),
                               running |-> Len(s.inflight)]]
  ELSE s

\* stopCrawling(reason): set the flag, clear and pause the queue.
stopCrawling(s, reason) ==
  IF ~s.shouldStop
  THEN [s EXCEPT !.shouldStop = TRUE,
                 !.queue = <<>>,
                 !.isPaused = TRUE,
                 !.stopSnap = [set |-> TRUE, reason |-> reason, pc |-> pc,
                               urlCount |-> s.urlCount, visited |-> s.visited,
                               fetched |-> s.fetched, waiting |-> Len(s.queue),
                               running |-> Len(s.inflight)]]
  ELSE s

\* processUrl returned without suspending: a queue job's completion is due.
Returned(s, queued) == IF queued THEN [s EXCEPT !.finished = @ + 1] ELSE s

\* Mutant of Dispatch: the URL is marked and fetched without being counted.
DispatchUncounted(s, url, queued) ==
  LET m == markVisited(s, url)
  IN IF m.shouldStop
     THEN Returned(m, queued)
     ELSE [m EXCEPT !.inflight = Append(@, [url |-> url, queued |-> queued,
                                            phase |-> "response",
                                            abortTimer |-> TRUE]),
                    !.fetched = Append(@, url)]

\* Fetch issued for url: the task suspends in fetchPage.
Dispatch(s, url, queued) ==
  LET m == [markVisited(s, url) EXCEPT !.urlCount = @ + 1]
  IN IF m.shouldStop
     THEN Returned(m, queued)
     ELSE [m EXCEPT !.inflight = Append(@, [url |-> url, queued |-> queued,
                                            phase |-> "response",
                                            abortTimer |-> TRUE]),
                    !.fetched = Append(@, url)]

\* Mutant of processUrlStart: the URL cap is not checked.
processUrlStartNoCap(s, rawUrl, queued) ==
  LET url == Normalize(rawUrl)
  IN IF s.shouldStop THEN Returned(s, queued)
     ELSE IF isVisited(s, url) THEN Returned(s, queued)
     ELSE Dispatch(s, url, queued)

\* Mutant of processUrlStart: the visited set is not consulted.
processUrlStartNoVisited(s, rawUrl, queued) ==
  LET url == Normalize(rawUrl)
  IN IF s.shouldStop THEN Returned(s, queued)
     ELSE IF s.urlCount >= config.maxUrlsPerDomain
          THEN Returned(stopCrawling(s, ReasonUrls), queued)
     ELSE Dispatch(s, url, queued)

\* Mutant of processUrlStart: the stop flag is not checked on entry.
processUrlStartNoStop(s, rawUrl, queued) ==
  LET url == Normalize(rawUrl)
  IN IF isVisited(s, url) THEN Returned(s, queued)
     ELSE IF s.urlCount >= config.maxUrlsPerDomain
          THEN Returned(stopCrawling(s, ReasonUrls), queued)
     ELSE Dispatch(s, url, queued)

\* Mutant of processUrlStart: at the URL cap the task returns without
\* stopping the crawl.
processUrlStartSkipAtCap(s, rawUrl, queued) ==
  LET url == Normalize(rawUrl)
  IN IF s.shouldStop THEN Returned(s, queued)
     ELSE IF isVisited(s, url) THEN Returned(s, queued)
     ELSE IF s.urlCount >= config.maxUrlsPerDomain THEN Returned(s, queued)
     ELSE Dispatch(s, url, queued)

\* processUrl from its entry to the `await fetch` inside fetchPage.
processUrlStart(s, rawUrl, queued) ==
  LET url == Normalize(rawUrl)
  IN IF s.shouldStop THEN Returned(s, queued)
     ELSE IF isVisited(s, url) THEN Returned(s, queued)
     ELSE IF s.urlCount >= config.maxUrlsPerDomain
          THEN Returned(stopCrawling(s, ReasonUrls), queued)
     ELSE Dispatch(s, url, queued)

\* Mutant of tryToStartAnother: a waiting job starts whether or not a slot
\* is free.
tryToStartAnotherNoLimit(s) ==
  IF Len(s.queue) = 0
  THEN [s EXCEPT !.emptyEvt = TRUE]
  ELSE IF ~s.isPaused
       THEN processUrlStart([s EXCEPT !.queue = Tail(@), !.pending = @ + 1],
                            Head(s.queue), TRUE)
       ELSE s

\* p-queue: start the next waiting job if the queue is running and a slot is
\* free; an empty queue emits 'empty'.
tryToStartAnother(s) ==
  IF Len(s.queue) = 0
  THEN [s EXCEPT !.emptyEvt = TRUE]
  ELSE IF ~s.isPaused /\ s.pending < config.maxConcurrency
       THEN processUrlStart([s EXCEPT !.queue = Tail(@), !.pending = @ + 1],
                            Head(s.queue), TRUE)
       ELSE s

\* this.queue.add(() => this.processUrl(link, baseDomain, results))
queueAdd(s, link) ==
  tryToStartAnother([s EXCEPT !.queue = Append(@, link),
                              !.enqueued = @ \cup {link},
                              !.requeued = IF Normalize(link) \in s.visited
                                           THEN @ \cup {link} ELSE @])

\* p-queue: a job has settled.
jobSettled(s) == tryToStartAnother([s EXCEPT !.pending = @ - 1])

\* Run the pending microtasks: every finished job settles, which may start
\* further jobs, which may finish at once.
RECURSIVE drainMicrotasks(_)
drainMicrotasks(s) ==
  IF s.finished > 0
  THEN drainMicrotasks(jobSettled([s EXCEPT !.finished = @ - 1]))
  ELSE s

\* The loop of processUrl over the filtered links of the fetched page.
RECURSIVE enqueueLinks(_, _)
enqueueLinks(s, links) ==
  IF links = <<>> THEN s
  ELSE IF s.shouldStop \/ s.urlCount >= config.maxUrlsPerDomain THEN s
  ELSE enqueueLinks(IF ~isVisited(s, Head(links)) THEN queueAdd(s, Head(links)) ELSE s,
                    Tail(links))

\* Mutant of enqueueSeedLinks: the loop does not look at the stop flag.
RECURSIVE enqueueSeedLinksIgnoringStop(_, _)
enqueueSeedLinksIgnoringStop(s, links) ==
  IF links = <<>> THEN s
  ELSE enqueueSeedLinksIgnoringStop(IF ~isVisited(s, Head(links))
                                    THEN queueAdd(s, Head(links)) ELSE s,
                                    Tail(links))

\* The loop of crawl() over the filtered links of the seed page.
RECURSIVE enqueueSeedLinks(_, _)
enqueueSeedLinks(s, links) ==
  IF links = <<>> THEN s
  ELSE IF s.shouldStop THEN s
  ELSE enqueueSeedLinks(IF ~isVisited(s, Head(links)) THEN queueAdd(s, Head(links)) ELSE s,
                        Tail(links))

\* A fetch outcome: Failure (network error, abort, empty body) or a page.
Failure == [ok |-> FALSE, content |-> "", links |-> <<>>, title |-> ""]

\* What a request may meet: a network error or an abort, a response with an
\* empty body, a response whose body is not text (bytes of an image, an
\* archive), or an HTML page with a title and anchors.
Responses ==
  { [kind |-> "error", links |-> <<>>], [kind |-> "empty", links |-> <<>>],
    [kind |-> "bytes", links |-> <<>>] }
    \cup {[kind |-> "html", links |-> l] : l \in LinkLists}

\* fetchPage: no content for a failed request and for an empty body; any
\* other body is decoded by response.text() and handed to the HTML parser,
\* which finds no title and no anchor in bytes that are not HTML.
fetchPage(response) ==
  IF response.kind \in {"error", "empty"} THEN Failure
  ELSE [ok |-> TRUE, content |-> response.kind, links |-> response.links,
        title |-> IF response.kind = "html" THEN "page" ELSE ""]

Outcomes == {fetchPage(response) : response \in Responses}

\* Mutant of pushResult: the new record takes the place of the last one.
pushResultOverLast(res, url, outcome) ==
  IF outcome.ok
  THEN Append(SubSeq(res, 1, Len(res) - 1),
              [url |-> url, content |-> outcome.content,
               links |-> outcome.links, title |-> outcome.title])
  ELSE res

\* results.push({ url, content, links, title }) when content is non-empty
pushResult(res, url, outcome) ==
  IF outcome.ok
  THEN Append(res, [url |-> url, content |-> outcome.content,
                    links |-> outcome.links, title |-> outcome.title])
  ELSE res

\* Mutant of processUrlResume: a failed fetch stops the crawl.
processUrlResumeStopsOnFailure(s, url, outcome) ==
  IF s.shouldStop THEN s
  ELSE IF ~outcome.ok THEN stopCrawling(s, "Fetch failed")
  ELSE enqueueLinks(s, filterLinks(outcome.links, url, HostName(seedUrl)))

\* processUrl after fetchPage has returned: the stop check and the link loop.
processUrlResume(s, url, outcome) ==
  IF s.shouldStop THEN s
  ELSE enqueueLinks(s, filterLinks(outcome.links, url, HostName(seedUrl)))

\* results.flatMap(result => this.filterLinks(result.links, seedUrl, baseDomain))
RECURSIVE flatMapLinks(_)
flatMapLinks(res) ==
  IF res = <<>> THEN <<>>
  ELSE filterLinks(Head(res).links, seedUrl, HostName(seedUrl)) \o flatMapLinks(Tail(res))

\* The synthetic records of crawl().
FailedRecord ==
  [url |-> seedUrl, content |-> "<h1>Failed to load content</h1>", links |-> <<>>,
   title |-> "Failed to Load Content"]
ErrorRecord ==
  [url |-> seedUrl, content |-> "<h1>Error</h1>", links |-> <<>>, title |-> "Error"]

\* Mutant of finishResults: an empty result is returned as it is.
finishResultsAsIs(res) == res

\* crawl(): an empty result gets the seed's failure record.
finishResults(res) == IF Len(res) = 0 THEN <<FailedRecord>> ELSE res

RemoveAt(seq, i) == SubSeq(seq, 1, i - 1) \o SubSeq(seq, i + 1, Len(seq))

\* ------------------------------------------------------------------ actions
Cur ==
  [visited |-> visited, bloomFilter |-> bloomFilter, urlCount |-> urlCount,
   shouldStop |-> shouldStop, queue |-> queue, isPaused |-> isPaused,
   pending |-> pending, inflight |-> inflight, fetched |-> fetched,
   enqueued |-> enqueued, requeued |-> requeued, stopSnap |-> stopSnap,
   finished |-> 0, emptyEvt |-> FALSE]

Commit(s) ==
  /\ visited' = s.visited
  /\ bloomFilter' = s.bloomFilter
  /\ urlCount' = s.urlCount
  /\ shouldStop' = s.shouldStop
  /\ queue' = s.queue
  /\ isPaused' = s.isPaused
  /\ pending' = s.pending
  /\ inflight' = s.inflight
  /\ fetched' = s.fetched
  /\ enqueued' = s.enqueued
  /\ requeued' = s.requeued
  /\ stopSnap' = s.stopSnap

ReturnValue(pages) == [returned |-> TRUE, pages |-> pages]

PrefixB == [host |-> SeedHost, path |-> <<"/", "b">>]
PrefixC == [host |-> SeedHost, path |-> <<"/", "c">>]

\* The prefix policies a run may be configured with.
PrefixPolicies ==
  { [allowed |-> <<>>, ignore |-> <<>>],
    [allowed |-> <<PrefixB>>, ignore |-> <<>>],
    [allowed |-> <<>>, ignore |-> <<PrefixC>>] }

Configs ==
  { [maxConcurrency |-> c, sameDomain |-> d, maxUrlsPerDomain |-> n,
     allowedPrefixes |-> pp.allowed, ignorePrefixes |-> pp.ignore] :
      c \in 1..MaxConcurrency, d \in BOOLEAN, n \in 1..MaxUrlsBound,
      pp \in PrefixPolicies }

\* The crawler was constructed by a caller other than the command line.
NoOptions == [given |-> FALSE]

\* No crawler has been constructed.
NoConfig == [constructed |-> FALSE]

CrawlerConstructed == pc \notin {"cli", "outdir", "exit0", "exit1"}

\* The state after `new ParallelCrawler(config)` and the call of crawl(seedUrl),
\* suspended in `await fs.mkdir`.
Init ==
  /\ options = NoOptions
  /\ config \in Configs
  /\ seedUrl \in Seeds
  /\ pc = "mkdir"
  /\ timerFired = FALSE
  /\ visited = {}
  /\ bloomFilter = {}
  /\ urlCount = 0
  /\ shouldStop = FALSE
  /\ queue = <<>>
  /\ isPaused = FALSE
  /\ pending = 0
  /\ inflight = <<>>
  /\ results = <<>>
  /\ retval = NotReturned
  /\ fetched = <<>>
  /\ enqueued = {}
  /\ requeued = {}
  /\ stopSnap = NoSnap
  /\ convPc = "idle"
  /\ convArgs = NoArgs
  /\ convPos = 0
  /\ convFiles = {}

\* The run-time timer of the constructor fires.
TimerFires ==
  /\ CrawlerConstructed
  /\ ~timerFired
  /\ timerFired' = TRUE
  /\ \E s1 \in {stopCrawling(Cur, ReasonTime)} : Commit(s1)
  /\ UNCHANGED convVars
  /\ UNCHANGED <<options, config, seedUrl, pc, results, retval>>

\* Mutant of CrawlStart: crawl() does not wait for the seed before it queues
\* a task.
CrawlStartQueuesEarly ==
  /\ pc = "mkdir"
  /\ \E s1 \in {queueAdd(processUrlStart(Cur, seedUrl, FALSE), UrlB)} :
        /\ Commit(s1)
        /\ pc' = "seed"
        /\ results' = results
        /\ retval' = retval
  /\ UNCHANGED convVars
  /\ UNCHANGED <<options, config, seedUrl, timerFired>>

\* fs.mkdir resolves: crawl() calls processUrl(seedUrl) and awaits it; when
\* processUrl returns without fetching, crawl() runs on to its return.
CrawlStart ==
  /\ pc = "mkdir"
  /\ \E s1 \in {processUrlStart(Cur, seedUrl, FALSE)} :
     \E suspended \in {Len(s1.inflight) > Len(inflight)} :
        /\ Commit(s1)
        /\ pc' = IF suspended THEN "seed" ELSE "returned"
        /\ results' = IF suspended THEN results ELSE finishResults(results)
        /\ retval' = IF suspended THEN retval ELSE ReturnValue(finishResults(results))
  /\ UNCHANGED convVars
  /\ UNCHANGED <<options, config, seedUrl, timerFired>>

\* fs.mkdir rejects: the catch block of crawl() returns the error record.
CrawlThrows ==
  /\ pc = "mkdir"
  /\ pc' = "returned"
  /\ retval' = ReturnValue(<<ErrorRecord>>)
  /\ UNCHANGED convVars
  /\ UNCHANGED <<options, config, seedUrl, timerFired, visited, bloomFilter, urlCount,
                 shouldStop, queue, isPaused, pending, inflight, results,
                 fetched, enqueued, requeued, stopSnap>>

\* fetch() resolves with a response: fetchPage clears the abort timer and
\* suspends in `await response.text()`.
ResponseArrives(i) ==
  /\ i \in 1..Len(inflight)
  /\ inflight[i].phase = "response"
  /\ inflight' = [inflight EXCEPT ![i].phase = "body", ![i].abortTimer = FALSE]
  /\ UNCHANGED convVars
  /\ UNCHANGED <<options, config, seedUrl, pc, timerFired, visited, bloomFilter,
                 urlCount, shouldStop, queue, isPaused, pending, results,
                 retval, fetched, enqueued, requeued, stopSnap>>

\* The seed's fetch completes: processUrl(seedUrl) finishes and crawl() goes
\* on to queue the seed page's links and to `await this.queue.onEmpty()`,
\* which resolves at once when no task is waiting.
SeedFetchDone(outcome) ==
  /\ pc = "seed"
  /\ Len(inflight) = 1
  /\ ~inflight[1].queued
  /\ outcome.ok => inflight[1].phase = "body"
  /\ \E url \in {inflight[1].url} :
     \E res1 \in {pushResult(results, url, outcome)} :
     \E s1 \in {processUrlResume([Cur EXCEPT !.inflight = RemoveAt(@, 1)], url, outcome)} :
     \E s2 \in {drainMicrotasks(s1)} :
     \E go \in {Len(res1) > 0 /\ ~s2.shouldStop} :
     \E s3 \in {IF go THEN enqueueSeedLinks(s2, flatMapLinks(res1)) ELSE s2} :
     \E s4 \in {drainMicrotasks([s3 EXCEPT !.emptyEvt = FALSE])} :
     \E ret \in {~(go /\ Len(s3.queue) > 0) \/ s4.emptyEvt} :
        /\ Commit(s4)
        /\ pc' = IF ret THEN "returned" ELSE "drain"
        /\ results' = IF ret THEN finishResults(res1) ELSE res1
        /\ retval' = IF ret THEN ReturnValue(finishResults(res1)) ELSE retval
  /\ UNCHANGED convVars
  /\ UNCHANGED <<options, config, seedUrl, timerFired>>

\* Mutant of TaskFetchDone: once the stop flag is set, the record of a
\* completed fetch is dropped.
TaskFetchDoneDropsAfterStop(i, outcome) ==
  /\ i \in 1..Len(inflight)
  /\ inflight[i].queued
  /\ outcome.ok => inflight[i].phase = "body"
  /\ \E url \in {inflight[i].url} :
     \E res1 \in {IF shouldStop THEN results ELSE pushResult(results, url, outcome)} :
     \E s1 \in {processUrlResume([Cur EXCEPT !.inflight = RemoveAt(@, i)], url, outcome)} :
     \E s2 \in {drainMicrotasks([s1 EXCEPT !.finished = @ + 1])} :
     \E ret \in {pc = "drain" /\ s2.emptyEvt} :
        /\ Commit(s2)
        /\ pc' = IF ret THEN "returned" ELSE pc
        /\ results' = res1
        /\ retval' = IF ret THEN ReturnValue(res1) ELSE retval
  /\ UNCHANGED convVars
  /\ UNCHANGED <<options, config, seedUrl, timerFired>>

\* The fetch of a queued task completes: its processUrl finishes, its job
\* settles, and a crawl() waiting in onEmpty() returns if 'empty' is emitted.
TaskFetchDone(i, outcome) ==
  /\ i \in 1..Len(inflight)
  /\ inflight[i].queued
  /\ outcome.ok => inflight[i].phase = "body"
  /\ \E url \in {inflight[i].url} :
     \E res1 \in {pushResult(results, url, outcome)} :
     \E s1 \in {processUrlResume([Cur EXCEPT !.inflight = RemoveAt(@, i)], url, outcome)} :
     \E s2 \in {drainMicrotasks([s1 EXCEPT !.finished = @ + 1])} :
     \E ret \in {pc = "drain" /\ s2.emptyEvt} :
        /\ Commit(s2)
        /\ pc' = IF ret THEN "returned" ELSE pc
        /\ results' = res1
        /\ retval' = IF ret THEN ReturnValue(res1) ELSE retval
  /\ UNCHANGED convVars
  /\ UNCHANGED <<options, config, seedUrl, timerFired>>

Next ==
  \/ TimerFires
  \/ CrawlStart
  \/ CrawlThrows
  \/ \E i \in 1..MaxConcurrency : ResponseArrives(i)
  \/ \E outcome \in Outcomes : SeedFetchDone(outcome)
  \/ \E i \in 1..MaxConcurrency, outcome \in Outcomes : TaskFetchDone(i, outcome)

Spec == Init /\ [][Next]_vars

\* Scheduling assumption of the liveness claims: while fs.mkdir or a fetch is
\* outstanding, one of them eventually settles; nothing is assumed of the
\* order.  The run-time timer is not required to fire.
IoCompletes ==
  \/ CrawlStart
  \/ CrawlThrows
  \/ \E i \in 1..MaxConcurrency : ResponseArrives(i)
  \/ \E outcome \in Outcomes : SeedFetchDone(outcome)
  \/ \E i \in 1..MaxConcurrency, outcome \in Outcomes : TaskFetchDone(i, outcome)

Fairness == WF_vars(IoCompletes)

\* ------------------------------------------------------------ command line
\* A decimal string is a sequence of characters.
Digits == {"0", "1", "2", "3", "4", "5", "6", "7", "8", "9"}

DigitValue(c) ==
  CASE c = "0" -> 0 [] c = "1" -> 1 [] c = "2" -> 2 [] c = "3" -> 3
    [] c = "4" -> 4 [] c = "5" -> 5 [] c = "6" -> 6 [] c = "7" -> 7
    [] c = "8" -> 8 [] c = "9" -> 9

RECURSIVE DigitPrefix(_)
DigitPrefix(str) ==
  IF str = <<>> \/ Head(str) \notin Digits THEN <<>>
  ELSE <<Head(str)>> \o DigitPrefix(Tail(str))

RECURSIVE DecimalValue(_, _)
DecimalValue(ds, acc) ==
  IF ds = <<>> THEN acc
  ELSE DecimalValue(Tail(ds), acc * 10 + DigitValue(Head(ds)))

\* A JavaScript number: NaN, or an integer.
NaN == [nan |-> TRUE]
Num(n) == [nan |-> FALSE, val |-> n]

\* parseInt(str): an optional sign and the longest run of leading digits;
\* NaN when there is no digit.
parseInt(str) ==
  LET signed == str # <<>> /\ Head(str) \in {"+", "-"}
      body == IF signed THEN Tail(str) ELSE str
      ds == DigitPrefix(body)
  IN IF ds = <<>> THEN NaN
     ELSE IF signed /\ Head(str) = "-" THEN Num(0 - DecimalValue(ds, 0))
     ELSE Num(DecimalValue(ds, 0))

isNaN(x) == x.nan

\* The strings an option may be given as.
OptionStrings == { <<"1">>, <<"2", "x">>, <<"0">>, <<"-", "1">>, <<"a", "b", "c">> }

CliOptions ==
  [given : {TRUE},
   concurrency : OptionStrings, maxUrls : OptionStrings,
   requestTimeout : OptionStrings, maxRuntime : OptionStrings,
   allowedPrefixes : {<<>>, <<PrefixB>>}]

\* The config object the action handler builds from the options.
ParsedConfig(opts) ==
  [maxConcurrency |-> parseInt(opts.concurrency),
   maxUrlsPerDomain |-> parseInt(opts.maxUrls),
   requestTimeout |-> parseInt(opts.requestTimeout),
   maxRunTime |-> parseInt(opts.maxRuntime)]

\* Mutant of OptionsRejected: the request timeout is not validated.
OptionsRejectedNoTimeout(parsed) ==
  \/ isNaN(parsed.maxConcurrency) \/ parsed.maxConcurrency.val <= 0
  \/ isNaN(parsed.maxUrlsPerDomain) \/ parsed.maxUrlsPerDomain.val <= 0
  \/ isNaN(parsed.maxRunTime) \/ parsed.maxRunTime.val <= 0

\* The four validations of the action handler: TRUE when one of them exits.
OptionsRejected(parsed) ==
  \/ isNaN(parsed.maxConcurrency) \/ parsed.maxConcurrency.val <= 0
  \/ isNaN(parsed.maxUrlsPerDomain) \/ parsed.maxUrlsPerDomain.val <= 0
  \/ isNaN(parsed.requestTimeout) \/ parsed.requestTimeout.val <= 0
  \/ isNaN(parsed.maxRunTime) \/ parsed.maxRunTime.val <= 0

\* The program starts: no crawler exists yet.
CliInit ==
  /\ options \in CliOptions
  /\ config = NoConfig
  /\ seedUrl \in Seeds \cup {NotAUrl}
  /\ pc = "cli"
  /\ timerFired = FALSE
  /\ visited = {}
  /\ bloomFilter = {}
  /\ urlCount = 0
  /\ shouldStop = FALSE
  /\ queue = <<>>
  /\ isPaused = FALSE
  /\ pending = 0
  /\ inflight = <<>>
  /\ results = <<>>
  /\ retval = NotReturned
  /\ fetched = <<>>
  /\ enqueued = {}
  /\ requeued = {}
  /\ stopSnap = NoSnap
  /\ convPc = "idle"
  /\ convArgs = NoArgs
  /\ convPos = 0
  /\ convFiles = {}

\* The action handler parses and validates the options: process.exit(1) on
\* the first one that is rejected, else it awaits fs.mkdir of the output
\* directory.
CliValidate ==
  /\ pc = "cli"
  /\ \E rejected \in {OptionsRejected(ParsedConfig(options))} :
       pc' = IF rejected THEN "exit1" ELSE "outdir"
  /\ UNCHANGED convVars
  /\ UNCHANGED <<options, config, seedUrl, timerFired, visited, bloomFilter,
                 urlCount, shouldStop, queue, isPaused, pending, inflight,
                 results, retval, fetched, enqueued, requeued, stopSnap>>

\* fs.mkdir resolves: the crawler is constructed from the parsed config (the
\* time limits only set timers, whose firing is not tied to a duration here)
\* and crawl(url) is called, which suspends in its own fs.mkdir; when
\* new URL(url) throws, the catch block of crawl() returns the error record.
CliOutputDirReady ==
  /\ pc = "outdir"
  /\ \E parsed \in {ParsedConfig(options)} :
       config' = [maxConcurrency |-> parsed.maxConcurrency.val,
                  sameDomain |-> TRUE,
                  maxUrlsPerDomain |-> parsed.maxUrlsPerDomain.val,
                  allowedPrefixes |-> options.allowedPrefixes,
                  ignorePrefixes |-> <<>>]
  /\ pc' = IF IsAbsoluteUrl(seedUrl) THEN "mkdir" ELSE "returned"
  /\ retval' = IF IsAbsoluteUrl(seedUrl) THEN retval ELSE ReturnValue(<<ErrorRecord>>)
  /\ UNCHANGED convVars
  /\ UNCHANGED <<options, seedUrl, timerFired, visited, bloomFilter,
                 urlCount, shouldStop, queue, isPaused, pending, inflight,
                 results, fetched, enqueued, requeued, stopSnap>>

\* fs.mkdir rejects: the catch block of the handler logs, then process.exit(0).
CliOutputDirFails ==
  /\ pc = "outdir"
  /\ pc' = "exit0"
  /\ UNCHANGED convVars
  /\ UNCHANGED <<options, config, seedUrl, timerFired, visited, bloomFilter,
                 urlCount, shouldStop, queue, isPaused, pending, inflight,
                 results, retval, fetched, enqueued, requeued, stopSnap>>

CliNext ==
  \/ CliValidate
  \/ CliOutputDirReady
  \/ CliOutputDirFails
  \/ Next

\* The program run from its command line.
CliSpec == CliInit /\ [][CliNext]_vars

FairSpec == Spec /\ Fairness

\* ---------------------------------------------------------------- converter
\* DocumentConverter.processPages (src/src/converter.ts) in the layouts that
\* write one file per page.  A title, like a pathname, is a sequence of
\* tokens: words, and single characters that are not word characters.
MaxPages == 2

UrlRoot == MkUrl(SeedHost, <<"/">>, 0, FALSE)
UrlApiIntro == MkUrl(SeedHost, <<"/", "api", "/", "intro">>, 0, FALSE)
UrlDocsIntro == MkUrl(SeedHost, <<"/", "docs", "/", "intro">>, 0, FALSE)
UrlDocsIntroHtml == MkUrl(SeedHost, <<"/", "docs", "/", "intro", ".", "HTML">>, 0, FALSE)

ConvUrls == {UrlRoot, UrlApiIntro, UrlDocsIntro, UrlDocsIntroHtml}

\* The position of a URL string in the order of String.prototype.localeCompare.
UrlOrder(u) ==
  CASE u = UrlRoot -> 1
    [] u = UrlApiIntro -> 2
    [] u = UrlDocsIntro -> 3
    [] u = UrlDocsIntroHtml -> 4

\* The titles a page may have: none, a word, punctuation only, "Page 1".
Titles == { <<>>, <<"Home">>, <<"?">>, <<"Page", " ", "1">> }

ConvPages ==
  [url : ConvUrls, content : {"html"}, links : {<<>>}, title : Titles]

\* The collections processPages may be given: pages of distinct URLs.
PageLists ==
  UNION { {pages \in [1..n -> ConvPages] :
             \A i, j \in 1..n : i # j => pages[i].url # pages[j].url} :
          n \in 1..MaxPages }

\* Number.prototype.toString for the positions that occur.
NumStr(n) ==
  CASE n = 1 -> "1" [] n = 2 -> "2" [] n = 3 -> "3" [] n = 4 -> "4"
    [] OTHER -> "5"

\* [^\w]: the tokens that are not word characters.
NonWord == {" ", "?", "/", "-", "."}

\* String.prototype.split('/') on a pathname.
RECURSIVE SplitAtSlash(_, _)
SplitAtSlash(toks, cur) ==
  IF toks = <<>> THEN <<cur>>
  ELSE IF Head(toks) = "/" THEN <<cur>> \o SplitAtSlash(Tail(toks), <<>>)
  ELSE SplitAtSlash(Tail(toks), Append(cur, Head(toks)))

\* str.replace(/x+/g, x) on tokens: a run of x becomes a single x.
RECURSIVE CollapseRuns(_, _)
CollapseRuns(toks, x) ==
  IF Len(toks) < 2 THEN toks
  ELSE IF toks[1] = x /\ toks[2] = x THEN CollapseRuns(Tail(toks), x)
  ELSE <<Head(toks)>> \o CollapseRuns(Tail(toks), x)

\* str.replace(/^x|x$/g, ''): one x off each end.
TrimOne(toks, x) ==
  LET a == IF toks # <<>> /\ Head(toks) = x THEN Tail(toks) ELSE toks
  IN IF a # <<>> /\ a[Len(a)] = x THEN SubSeq(a, 1, Len(a) - 1) ELSE a

\* str.replace(/[...]+/g, x): every run of tokens of the class becomes one x,
\* next to which an x of the string itself stays.
ReplaceRuns(toks, class, x) ==
  LET marked == [i \in 1..Len(toks) |-> IF toks[i] \in class THEN "#" ELSE toks[i]]
      merged == CollapseRuns(marked, "#")
  IN [i \in 1..Len(merged) |-> IF merged[i] = "#" THEN x ELSE merged[i]]

\* sanitizeString: lower case, runs outside [\w.] to "_", trimmed, collapsed.
sanitizeString(str) ==
  CollapseRuns(TrimOne(ReplaceRuns(LowerSeq(str), NonWord \ {"."}, "_"), "_"), "_")

\* groupPagesByFolder: url.pathname.split('/').slice(0, 2).join('_')
FolderName(u) ==
  LET parts == SplitAtSlash(u.path, <<>>)
  IN IF Len(parts) >= 2 THEN parts[1] \o <<"_">> \o parts[2] ELSE parts[1]

\* lastPathPart.replace(/\.(html|htm|php|aspx?)$/i, '')
StripPageExtension(part) ==
  IF /\ Len(part) >= 2
     /\ part[Len(part) - 1] = "."
     /\ ToLower(part[Len(part)]) \in {"html", "htm", "php", "asp", "aspx"}
  THEN SubSeq(part, 1, Len(part) - 2)
  ELSE part

\* createSafeFilename(url, title, index)
createSafeFilename(url, title, index) ==
  LET pathParts == SelectSeq(SplitAtSlash(url.path, <<>>), LAMBDA part : part # <<>>)
      generic == Len(title) >= 2 /\ title[1] = "Page" /\ title[2] = " "
      named == IF generic /\ Len(pathParts) > 0
               THEN StripPageExtension(pathParts[Len(pathParts)])
               ELSE title
      safe == TrimOne(CollapseRuns(ReplaceRuns(LowerSeq(named), NonWord, "-"), "-"), "-")
  IN IF safe = <<>> THEN <<"page", "-", NumStr(index + 1), ".md">>
     ELSE Append(safe, ".md")

\* [...pages].sort((a, b) => a.url.localeCompare(b.url))
sortedPages(pages) ==
  SortSeq(pages, LAMBDA a, b : UrlOrder(a.url) < UrlOrder(b.url))

\* The folders of groupPagesByFolder in the order of Object.entries: that in
\* which each folder first occurs.
RECURSIVE FolderOrder(_, _)
FolderOrder(pages, seen) ==
  IF pages = <<>> THEN seen
  ELSE LET f == FolderName(Head(pages).url)
       IN FolderOrder(Tail(pages),
                      IF \E k \in 1..Len(seen) : seen[k] = f THEN seen
                      ELSE Append(seen, f))

\* The iterations of the two nested loops of processPages, in order: the
\* page, its folder and its index i within the folder.
RECURSIVE LoopOver(_, _)
LoopOver(folders, pages) ==
  IF folders = <<>> THEN <<>>
  ELSE LET inFolder == SelectSeq(pages, LAMBDA pg : FolderName(pg.url) = Head(folders))
       IN [i \in 1..Len(inFolder) |->
             [page |-> inFolder[i], folder |-> Head(folders), i |-> i - 1]]
          \o LoopOver(Tail(folders), pages)

Iterations(pages) ==
  LoopOver(FolderOrder(sortedPages(pages), <<>>), sortedPages(pages))

\* pageFilePath of the iteration at position pos (pageIndex = pos - 1).
pageFilePath(args, pos) ==
  LET it == Iterations(args.pages)[pos]
      title == IF it.page.title # <<>> THEN it.page.title
               ELSE <<"Page", " ", NumStr(pos)>>
      name == createSafeFilename(it.page.url, title, it.i)
  IN IF args.splitPages = "flat"
     THEN [dir |-> "", name |-> sanitizeString(it.folder) \o <<"_">> \o name]
     ELSE [dir |-> "pages", name |-> name]

\* fs.writeFile(path, ...): the file at path is created or replaced.
writeFile(files, path, url) ==
  {f \in files : f.path # path} \cup {[path |-> path, url |-> url]}

\* processPages is called with a page collection in a split layout.  The
\* converter reads nothing of the crawler, whose variables stay as they are.
ConvInit ==
  /\ options = NoOptions
  /\ config = NoConfig
  /\ seedUrl \in Seeds
  /\ pc = "returned"
  /\ timerFired = FALSE
  /\ visited = {}
  /\ bloomFilter = {}
  /\ urlCount = 0
  /\ shouldStop = FALSE
  /\ queue = <<>>
  /\ isPaused = FALSE
  /\ pending = 0
  /\ inflight = <<>>
  /\ results = <<>>
  /\ retval = NotReturned
  /\ fetched = <<>>
  /\ enqueued = {}
  /\ requeued = {}
  /\ stopSnap = NoSnap
  /\ convPc = "called"
  /\ convArgs \in [pages : PageLists, splitPages : {"subdirectories", "flat"}]
  /\ convPos = 0
  /\ convFiles = {}

\* processPages up to its first await: fs.mkdir of pages/ in the
\* subdirectories layout, the first fs.writeFile in the flat layout.
ConvStart ==
  /\ convPc = "called"
  /\ convPc' = IF convArgs.splitPages = "subdirectories" THEN "mkdir" ELSE "write"
  /\ convPos' = IF convArgs.splitPages = "subdirectories" THEN 0 ELSE 1
  /\ UNCHANGED <<convArgs, convFiles>>
  /\ UNCHANGED crawlVars

\* fs.mkdir resolves: the loop is entered and the first page file written.
ConvMkdirDone ==
  /\ convPc = "mkdir"
  /\ convPc' = "write"
  /\ convPos' = 1
  /\ UNCHANGED <<convArgs, convFiles>>
  /\ UNCHANGED crawlVars

\* fs.writeFile of a page file resolves: the loop goes on to the next page,
\* or to the index file after the last one.
ConvWriteDone ==
  /\ convPc = "write"
  /\ \E it \in {Iterations(convArgs.pages)[convPos]} :
       convFiles' = writeFile(convFiles, pageFilePath(convArgs, convPos), it.page.url)
  /\ convPos' = convPos + 1
  /\ convPc' = IF convPos = Len(convArgs.pages) THEN "index" ELSE "write"
  /\ UNCHANGED convArgs
  /\ UNCHANGED crawlVars

\* fs.writeFile of index.md resolves: processPages returns its path.
ConvIndexDone ==
  /\ convPc = "index"
  /\ convPc' = "done"
  /\ UNCHANGED <<convArgs, convPos, convFiles>>
  /\ UNCHANGED crawlVars

\* fs.mkdir or fs.writeFile rejects: processPages throws.
ConvFsFails ==
  /\ convPc \in {"mkdir", "write", "index"}
  /\ convPc' = "failed"
  /\ UNCHANGED <<convArgs, convPos, convFiles>>
  /\ UNCHANGED crawlVars

ConvNext ==
  \/ ConvStart
  \/ ConvMkdirDone
  \/ ConvWriteDone
  \/ ConvIndexDone
  \/ ConvFsFails

\* The converter run on a page collection.
ConvSpec == ConvInit /\ [][ConvNext]_vars

\* ---------------------------------------------------------------- typing
TypeOK ==
  /\ pc \in {"cli", "outdir", "exit0", "exit1", "mkdir", "seed", "drain", "returned"}
  /\ urlCount \in Nat
  /\ pending \in 0..config.maxConcurrency
  /\ Len(inflight) <= config.maxConcurrency + 1

\* ------------------------------------------------------- claim vocabulary
Range(seq) == {seq[i] : i \in 1..Len(seq)}

\* Two URL strings are equal once query string and fragment are stripped.
SamePage(u, v) == u.host = v.host /\ u.path = v.path

NoTwoSamePage(seq) ==
  \A i, j \in 1..Len(seq) : i # j => ~SamePage(seq[i], seq[j])

Urls(pages) == [i \in 1..Len(pages) |-> pages[i].url]

LinksTo(page, u) == \E k \in 1..Len(page.links) : SamePage(page.links[k], u)

\* C1: the dispatched-URL counter never exceeds maxUrlsPerDomain, whatever
\* the concurrency limit and the number of waiting tasks.
C1_CountWithinCap == urlCount <= config.maxUrlsPerDomain

\* The cap was reached and stopped the run while tasks were waiting.
C1_Witness ==
  /\ urlCount = config.maxUrlsPerDomain
  /\ stopSnap.set /\ stopSnap.reason = ReasonUrls
  /\ stopSnap.waiting > 0

C3_NoDuplicateRecords ==
  /\ retval.returned => NoTwoSamePage(Urls(retval.pages))
  /\ NoTwoSamePage(Urls(results))

\* crawl() has returned several records, two of which link to the same page.
C3_Witness ==
  /\ retval.returned
  /\ Len(retval.pages) >= 2
  /\ \E i, j \in 1..Len(retval.pages) :
        /\ i # j
        /\ \E k \in 1..Len(retval.pages) :
              /\ LinksTo(retval.pages[i], retval.pages[k].url)
              /\ LinksTo(retval.pages[j], retval.pages[k].url)

\* C4: crawl() returns only when no task is waiting in the queue and no
\* fetch is in flight.
C4_ReturnsWhenStopped ==
  [][(pc # "returned" /\ pc' = "returned") =>
       (Len(queue') = 0 /\ Len(inflight') = 0)]_vars

\* C5: when every fetch succeeds, every link is admitted and neither cap is
\* reached, a finished run has returned exactly one record per page that was
\* reached from the seed.
C5_Quiet == pc = "returned" /\ Len(inflight) = 0 /\ Len(queue) = 0

C5_NothingLost ==
  /\ ~shouldStop /\ ~timerFired
  /\ urlCount < config.maxUrlsPerDomain
  /\ Len(results) = Len(fetched)
  /\ \A i \in 1..Len(results) : \A k \in 1..Len(results[i].links) :
        /\ AdmitLink(results[i].links[k], HostName(seedUrl))
        /\ \E j \in 1..Len(fetched) : SamePage(fetched[j], results[i].links[k])

C5_OneRecordPerReachablePage ==
  (C5_Quiet /\ C5_NothingLost) =>
     /\ NoTwoSamePage(Urls(retval.pages))
     /\ \A j \in 1..Len(fetched) :
          \E i \in 1..Len(retval.pages) : SamePage(retval.pages[i].url, fetched[j])

\* C6: if the run-time timer fires while tasks are waiting or in flight and
\* every fetch in flight completes, crawl() eventually returns, with a
\* non-empty collection.
C6_TimerStoppedRun ==
  /\ stopSnap.set /\ stopSnap.reason = ReasonTime
  /\ stopSnap.pc # "returned"
  /\ stopSnap.waiting + stopSnap.running > 0

C6_TimerStopReturns ==
  C6_TimerStoppedRun ~> (pc = "returned" /\ Len(retval.pages) > 0)

\* The timer fired while crawl() was waiting for the queue with tasks waiting
\* and in flight, and crawl() has returned since.
C6_Witness ==
  /\ C6_TimerStoppedRun
  /\ stopSnap.pc = "drain" /\ stopSnap.waiting > 0 /\ stopSnap.running > 0
  /\ pc = "returned" /\ Len(retval.pages) > 0

\* C7: crawl() never returns an empty collection; when it returns no fetched
\* page, it returns exactly one synthetic record, for the seed URL and
\* without links.
C7_IsFetchedPage(r) == r.title \notin {FailedRecord.title, ErrorRecord.title}

C7_NeverEmpty ==
  retval.returned =>
    /\ Len(retval.pages) > 0
    /\ (\A i \in 1..Len(retval.pages) : ~C7_IsFetchedPage(retval.pages[i])) =>
          /\ Len(retval.pages) = 1
          /\ retval.pages[1].url = seedUrl
          /\ retval.pages[1].links = <<>>

\* The seed was fetched, the fetch failed, and crawl() returned the seed's
\* failure record.
C7_Witness ==
  /\ retval.returned
  /\ Len(fetched) = 1 /\ Len(inflight) = 0
  /\ retval.pages = <<FailedRecord>>

\* C8: once the stop flag is set no task starts: no fetch is issued, no URL
\* is marked visited and the dispatched counter is not incremented.
C8_NothingStartsAfterStop ==
  shouldStop =>
    /\ stopSnap.set
    /\ fetched = stopSnap.fetched
    /\ visited = stopSnap.visited
    /\ urlCount = stopSnap.urlCount

\* The stop discarded waiting tasks, the tasks in flight have completed since
\* and one of them found an admissible link that was never visited.
C8_Witness ==
  /\ shouldStop /\ stopSnap.waiting > 0 /\ stopSnap.running > 0
  /\ Len(inflight) = 0
  /\ \E i \in 1..Len(results) : \E k \in 1..Len(results[i].links) :
        /\ AdmitLink(results[i].links[k], HostName(seedUrl))
        /\ \A v \in visited : ~SamePage(v, results[i].links[k])

\* C9: with sameDomain set, every URL dispatched during the run is on the
\* seed's host, and so is every link the filter admits from any fetched page.
C9_SameDomainOnly ==
  config.sameDomain =>
    /\ \A i \in 1..Len(fetched) : fetched[i].host = seedUrl.host
    /\ \A u \in enqueued : u.host = seedUrl.host
    /\ \A i \in 1..Len(results) :
          \A l \in Range(filterLinks(results[i].links, results[i].url, HostName(seedUrl))) :
            l.host = seedUrl.host

\* With sameDomain set, a fetched page linked to another host and the run
\* has ended.
C9_Witness ==
  /\ config.sameDomain
  /\ pc = "returned" /\ Len(inflight) = 0
  /\ \E i \in 1..Len(results) : \E k \in 1..Len(results[i].links) :
        results[i].links[k].host # seedUrl.host

\* C10: a discovered link whose path has one of the denied extensions is
\* rejected by the link filter; no task is queued and no fetch issued for it.
\* (An extension follows a non-empty file name: "/.js" has none.)
C10_Denied == {"jpg", "jpeg", "png", "gif", "pdf", "zip", "css", "js"}

C10_HasDeniedExtension(u) ==
  LET n == Len(u.path)
  IN /\ n >= 3
     /\ u.path[n] \in C10_Denied
     /\ u.path[n - 1] = "."
     /\ u.path[n - 2] \notin {"/", "."}

C10_DeniedExtensionNeverFetched ==
  /\ \A i \in 1..Len(results) : \A k \in 1..Len(results[i].links) :
        C10_HasDeniedExtension(results[i].links[k]) =>
          filterLinks(<<results[i].links[k]>>, results[i].url, HostName(seedUrl)) = <<>>
  /\ \A u \in enqueued : ~C10_HasDeniedExtension(u)
  /\ \A i \in 1..Len(fetched) : ~C10_HasDeniedExtension(fetched[i])

\* A fetched page linked to a .pdf, and the run has ended.
C10_Witness ==
  /\ pc = "returned" /\ Len(inflight) = 0
  /\ \E i \in 1..Len(results) : \E k \in 1..Len(results[i].links) :
        C10_HasDeniedExtension(results[i].links[k])

\* C11: with an allow-list configured, a discovered link that starts with
\* none of the listed prefixes is rejected even on the seed's domain, and no
\* URL other than the seed is dispatched unless it starts with a listed prefix.
C11_OnAllowList(u) ==
  \E k \in 1..Len(config.allowedPrefixes) :
    LET prefix == config.allowedPrefixes[k]
    IN /\ u.host = prefix.host
       /\ Len(prefix.path) <= Len(u.path)
       /\ \A n \in 1..Len(prefix.path) : u.path[n] = prefix.path[n]

C11_AllowListOnly ==
  Len(config.allowedPrefixes) > 0 =>
    /\ \A i \in 1..Len(results) : \A k \in 1..Len(results[i].links) :
          ~C11_OnAllowList(results[i].links[k]) =>
            filterLinks(<<results[i].links[k]>>, results[i].url, HostName(seedUrl)) = <<>>
    /\ \A u \in enqueued : C11_OnAllowList(u)
    /\ \A i \in 2..Len(fetched) : C11_OnAllowList(fetched[i])

\* With an allow-list, a fetched page linked to a URL of the seed's domain
\* that is off the list, another URL was dispatched and the run has ended.
C11_Witness ==
  /\ Len(config.allowedPrefixes) > 0
  /\ pc = "returned" /\ Len(inflight) = 0
  /\ Len(fetched) >= 2
  /\ \E i \in 1..Len(results) : \E k \in 1..Len(results[i].links) :
        /\ results[i].links[k].host = seedUrl.host
        /\ ~C11_OnAllowList(results[i].links[k])

\* C12: when the concurrency, the URL maximum, the request timeout or the
\* maximum run time is given as a non-positive number or as no number, the
\* program exits with a fatal startup error before a crawler is constructed:
\* no fetch is issued and no crawl state exists.
C12_BadOption ==
  \E str \in {options.concurrency, options.maxUrls,
              options.requestTimeout, options.maxRuntime} :
    isNaN(parseInt(str)) \/ parseInt(str).val <= 0

C12_FatalStartupError ==
  (options.given /\ C12_BadOption) =>
    /\ pc \in {"cli", "exit1"}
    /\ config = NoConfig
    /\ ~timerFired
    /\ fetched = <<>> /\ inflight = <<>>
    /\ visited = {} /\ bloomFilter = {} /\ urlCount = 0
    /\ results = <<>> /\ ~retval.returned

\* The process has exited on an option that is no number while the options
\* validated before it were good.
C12_Witness ==
  /\ options.given
  /\ pc = "exit1"
  /\ ~OptionsRejected([ParsedConfig(options) EXCEPT !.requestTimeout = Num(1)])
  /\ isNaN(parseInt(options.requestTimeout))

\* C13: a seed that is no well-formed absolute URL is a fatal startup error
\* raised before the run starts: crawl() is not entered and no result
\* collection is returned for it.
C13_SeedRejectedAtStartup ==
  (options.given /\ seedUrl.host = "") =>
    /\ pc \in {"cli", "outdir", "exit0", "exit1"}
    /\ ~retval.returned

\* C14: once markVisited(u) has been called, isVisited(u) is true at every
\* later moment, and the visited set and its Bloom filter only grow.
C14_MarkedStaysVisited ==
  /\ [](\A i \in 1..Len(fetched) : isVisited(Cur, fetched[i]))
  /\ [][visited \subseteq visited' /\ bloomFilter \subseteq bloomFilter']_vars

\* A page fetched after the first URL was marked linked back to that URL, so
\* the URL was looked up again after later marks.
C14_Witness ==
  /\ Len(fetched) >= 2
  /\ \E i \in 1..Len(results) :
       /\ results[i].url # fetched[1]
       /\ fetched[1] \in Range(results[i].links)

\* C15: the membership check normalizes its argument: after markVisited(u),
\* isVisited(v) is true for every URL string v that differs from u only by a
\* query string or a fragment.
UrlStrings == Seeds \cup UNION {Range(links) : links \in LinkLists}

C15_VariantsAreVisited ==
  \A i \in 1..Len(fetched) : \A v \in UrlStrings :
    SamePage(fetched[i], v) => isVisited(Cur, v)

\* C16: at every moment the number of fetches in flight is at most the
\* configured concurrency, the seed's fetch, which is issued outside the
\* queue, included.
C16_InFlightWithinConcurrency ==
  /\ Len(inflight) <= config.maxConcurrency
  /\ \A i \in 1..Len(inflight) : ~inflight[i].queued => Len(inflight) = 1

\* As many fetches are in flight as the concurrency allows, more than one,
\* while a further task waits for a slot.
C16_Witness ==
  /\ config.maxConcurrency >= 2
  /\ Len(inflight) = config.maxConcurrency
  /\ Len(queue) > 0
  /\ ~shouldStop

\* C17: once a URL, query and fragment stripped, is marked visited, no task
\* is added to the queue for it or for a variant of it, and the queue never
\* holds two waiting tasks for the same stripped URL.
C17_NeverQueuedAgain ==
  /\ requeued = {}
  /\ NoTwoSamePage(queue)

\* C18: in every state where urlCount equals maxUrlsPerDomain and tasks are
\* still waiting, the stop flag is set and the waiting tasks are discarded.
C18_StoppedAtCap ==
  (urlCount = config.maxUrlsPerDomain /\ Len(queue) > 0) => shouldStop

\* C18, amended: while urlCount equals maxUrlsPerDomain and tasks wait without
\* the stop flag set, no waiting task is dispatched; the tasks that start find
\* their URL visited and end at once, and the first one that does not sets
\* the stop flag and discards every task still waiting.
C18_StopsWhenNextTaskStarts ==
  [][(urlCount = config.maxUrlsPerDomain /\ Len(queue) > 0 /\ ~shouldStop) =>
       /\ fetched' = fetched
       /\ urlCount' = urlCount
       /\ \/ shouldStop' /\ queue' = <<>>
          \/ \E n \in 0..Len(queue) :
               /\ queue' = SubSeq(queue, n + 1, Len(queue))
               /\ \A k \in 1..n : isVisited(Cur, Normalize(queue[k]))]_vars

\* The URL cap stopped the run when a waiting task started: nothing was in
\* flight then, so the cap had been reached before, and tasks were waiting.
C18_Witness ==
  /\ shouldStop /\ ~timerFired
  /\ stopSnap.reason = ReasonUrls
  /\ stopSnap.urlCount = config.maxUrlsPerDomain
  /\ stopSnap.running = 0
  /\ stopSnap.waiting > 0
  /\ Len(queue) = 0

\* C19: a URL for which the exact set or the Bloom filter answers 'visited'
\* is not fetched, not marked and not counted, also when the filter's answer
\* is a false positive; urlCount counts no URL twice and never exceeds the
\* number of distinct URLs fetched.
C19_Pages == {[u EXCEPT !.q = 0, !.frag = FALSE] : u \in UrlStrings}

C19_Dispatched == {fetched'[k] : k \in (Len(fetched) + 1)..Len(fetched')}

C19_FalsePositiveOnlySkips ==
  /\ [](urlCount = Len(fetched) /\ urlCount = Cardinality(Range(fetched)))
  /\ [][\A u \in C19_Pages :
          (u \in visited \/ BloomHash(u) \subseteq bloomFilter) =>
            /\ u \notin C19_Dispatched
            /\ u \notin visited => u \notin visited']_vars

\* The run ended below the URL cap and unstopped; a fetched page linked to an
\* admissible URL that was never marked or fetched because the Bloom filter
\* answers 'visited' for it.
C19_Witness ==
  /\ pc = "returned" /\ Len(inflight) = 0
  /\ ~shouldStop /\ urlCount < config.maxUrlsPerDomain
  /\ config.allowedPrefixes = <<>> /\ config.ignorePrefixes = <<>>
  /\ \E i \in 1..Len(results) : \E k \in 1..Len(results[i].links) :
       LET u == results[i].links[k]
       IN /\ u.host = seedUrl.host /\ u.q = 0 /\ ~u.frag
          /\ Len(u.path) = 2
          /\ u \notin visited
          /\ u \notin Range(fetched)
          /\ BloomHash(u) \subseteq bloomFilter

\* C20: when the stop is triggered every task still waiting is removed and
\* never starts, while a task in flight runs to completion: when its fetch
\* returns non-empty content after the stop, its record is still appended to
\* the result collection.
C20_Record(i, links) ==
  [url |-> inflight[i].url, content |-> "html", links |-> links, title |-> "page"]

C20_Page(links) == [ok |-> TRUE, content |-> "html", links |-> links, title |-> "page"]

C20_StopSparesTasksInFlight ==
  /\ [](shouldStop => queue = <<>> /\ fetched = stopSnap.fetched)
  /\ [][(~shouldStop /\ shouldStop') =>
          /\ queue' = <<>>
          /\ Len(inflight') >= Len(inflight) - 1
          /\ timerFired' # timerFired => inflight' = inflight]_vars
  /\ [][shouldStop =>
          \A i \in 1..Len(inflight), links \in LinkLists :
            (\/ TaskFetchDone(i, C20_Page(links))
             \/ i = 1 /\ SeedFetchDone(C20_Page(links))) =>
              results' = Append(results, C20_Record(i, links))]_vars

\* The timer stopped the run with tasks waiting and fetches in flight; the
\* fetches have all completed since, and every fetch of the run, those in
\* flight at the stop included, has its record in the collection.
C20_Witness ==
  /\ shouldStop
  /\ stopSnap.reason = ReasonTime
  /\ stopSnap.waiting > 0
  /\ stopSnap.running > 0
  /\ Len(inflight) = 0
  /\ Len(results) = Len(fetched)

\* C21: the seed is dispatched first and alone: until the seed's fetch has
\* completed no task is queued or started and no other URL is marked visited
\* or fetched; the first fetch of a run is the seed's.
C21_SeedFirstAndAlone ==
  /\ Len(fetched) >= 1 => SamePage(fetched[1], seedUrl)
  /\ (pc \in {"mkdir", "seed"}) =>
       /\ queue = <<>> /\ pending = 0 /\ enqueued = {}
       /\ Len(fetched) <= 1
       /\ \A u \in visited : SamePage(u, seedUrl)
       /\ \A i \in 1..Len(inflight) : ~inflight[i].queued
       /\ results = <<>>

\* The seed's fetch has completed and the fan-out has begun: two queued
\* tasks are in flight next to the seed's record.
C21_Witness ==
  /\ pc = "drain"
  /\ Len(results) >= 1 /\ SamePage(results[1].url, seedUrl)
  /\ Len(fetched) >= 3
  /\ Len(inflight) >= 2

\* C22: a failed fetch of a URL other than the seed appends no record and
\* adds no task, does not set the stop flag and leaves the other tasks, in
\* flight and waiting, as they are; the URL stays visited and counted.  (The
\* slot the failed task frees goes to the next waiting task, as after any
\* completed task; that task starting at the URL cap is what may stop the
\* run in the same handler.)
C22_Failed == [ok |-> FALSE, content |-> "", links |-> <<>>, title |-> ""]

C22_IsSuffix(a, b) == \E n \in 0..Len(b) : a = SubSeq(b, n + 1, Len(b))

C22_FailureIsLocal ==
  [][\A i \in 1..Len(inflight) :
       TaskFetchDone(i, C22_Failed) =>
         /\ results' = results
         /\ enqueued' = enqueued
         /\ inflight[i].url \in visited'
         /\ urlCount' >= urlCount /\ urlCount' = Len(fetched')
         /\ \A j \in 1..Len(inflight) : j # i =>
              \E k \in 1..Len(inflight') : inflight'[k] = inflight[j]
         /\ C22_IsSuffix(queue', queue)
         /\ (shouldStop' /\ ~shouldStop) =>
              /\ stopSnap'.reason = ReasonUrls
              /\ Len(queue) > 0
              /\ urlCount' = config.maxUrlsPerDomain
         /\ \A s \in {processUrlResume([Cur EXCEPT !.inflight = RemoveAt(@, i)],
                                       inflight[i].url,
                                       C22_Failed)} :
              /\ s.shouldStop = shouldStop
              /\ s.queue = queue
              /\ s.pending = pending
              /\ s.visited = visited /\ s.urlCount = urlCount]_vars

\* The seed was fetched; the fetch of another URL has failed, leaving no
\* record; the run goes on unstopped with a fetch in flight, and the failed
\* URL is visited and counted.
C22_Witness ==
  /\ ~shouldStop
  /\ Len(results) >= 1 /\ SamePage(results[1].url, seedUrl)
  /\ Len(inflight) > 0
  /\ urlCount = Len(fetched)
  /\ \E k \in 2..Len(fetched) :
       /\ \A i \in 1..Len(inflight) : inflight[i].url # fetched[k]
       /\ \A i \in 1..Len(results) : results[i].url # fetched[k]
       /\ fetched[k] \in visited

\* C23: every fetch completes once its request timeout has expired, in
\* whatever phase the request is: as long as a fetch is in flight, waiting
\* for the response or reading the body, its abort timer is pending, so that
\* the timeout ends it.
C23_TimeoutCoversEveryPhase ==
  \A i \in 1..Len(inflight) : inflight[i].abortTimer

\* C24: the page fetcher returns a Failure, which leaves no record, for every
\* network error, every response that is not text and every empty body: no
\* record of the collection holds the body of a response that is not text,
\* and no fetched page has empty content.
C24_NoRecordOfNonText ==
  \A i \in 1..Len(results) : results[i].content \notin {"bytes", ""}

\* C25: the query-length rule rejects a link exactly when its query string
\* is longer than 20 characters: a link with a query string of 20 characters
\* or fewer is not rejected by this rule, one of 21 or more is.
C25_OnlyQueryRuleApplies(u) ==
  /\ u.host = seedUrl.host
  /\ Len(u.path) = 2
  /\ config.allowedPrefixes = <<>> /\ config.ignorePrefixes = <<>>

C25_Rejected(i, k) ==
  filterLinks(<<results[i].links[k]>>, results[i].url, HostName(seedUrl)) = <<>>

C25_RejectedAbove20 ==
  /\ \A i \in 1..Len(results) : \A k \in 1..Len(results[i].links) :
       C25_OnlyQueryRuleApplies(results[i].links[k]) =>
         (C25_Rejected(i, k) <=> results[i].links[k].q > 20)
  /\ \A u \in enqueued : u.q <= 20

\* C25, amended: the rule measures the query string with its leading "?": a
\* link is rejected exactly when that is longer than 20 characters, that is
\* when the query itself has 20 characters or more; a link with a query of
\* 19 characters or fewer is not rejected by this rule.
C25_RejectedFrom20 ==
  /\ \A i \in 1..Len(results) : \A k \in 1..Len(results[i].links) :
       C25_OnlyQueryRuleApplies(results[i].links[k]) =>
         (C25_Rejected(i, k) <=> results[i].links[k].q >= 20)
  /\ \A u \in enqueued : u.q < 20

\* A fetched page linked to URLs with queries of 19, 20 and 21 characters;
\* a task was queued for the first of them only.
C25_Witness ==
  /\ \E i \in 1..Len(results) :
       {19, 20, 21} \subseteq {results[i].links[k].q : k \in 1..Len(results[i].links)}
  /\ {u.q : u \in enqueued} = {19}

\* C26: the result collection is append-only during a run: across every step
\* the sequence of records is a prefix of its next value; no record is
\* removed, reordered or modified once appended.
C26_AppendOnly ==
  [][/\ Len(results) <= Len(results')
     /\ \A i \in 1..Len(results) : results'[i] = results[i]]_vars

\* Three records were appended one after the other.
C26_Witness ==
  /\ Len(results) >= 3
  /\ \A i \in 1..Len(results) : results[i].content = "html"

\* C27: in the split layouts processPages writes one file per page: any two
\* distinct pages of the input get distinct file paths, so once the last
\* page file is written the page files number as many as the pages, also
\* when pages share a title or when title and URL tail are both unusable.
C27_OneFilePerPage ==
  convPc \in {"index", "done"} =>
    Cardinality({f.path : f \in convFiles}) = Len(convArgs.pages)

\* C28: the visited check, the mark and the counter increment of a task are
\* one atomic step: in every reachable state urlCount equals the number of
\* URLs in the exact visited set, every step counts exactly the URLs it
\* marks, and a URL it marks was not answered 'visited' before the step.
C28_CheckMarkCountAtomic ==
  /\ [](urlCount = Cardinality(visited))
  /\ [][/\ urlCount' - urlCount = Cardinality(visited' \ visited)
        /\ \A u \in visited' \ visited : ~isVisited(Cur, u)]_vars

\* Several tasks are suspended in their fetches at once, each having checked,
\* marked and counted its URL while the others were in flight.
C28_Witness ==
  /\ Len(inflight) >= 2
  /\ urlCount >= 3
  /\ \A i \in 1..Len(inflight) : inflight[i].url \in visited

\* C29: no task is added to the queue while the stop flag is set: in every
\* reachable state where the flag is set no task waits in the queue, and no
\* step taken with the flag set adds a link to the queue.
C29_NothingQueuedAfterStop ==
  /\ [](shouldStop => Len(queue) = 0)
  /\ [][shouldStop => enqueued' = enqueued /\ Len(queue') = 0]_vars

\* The URL cap stopped the run while links of a fetched page were being
\* queued: an admissible link of that page, not visited, was never queued.
C29_Witness ==
  /\ shouldStop
  /\ stopSnap.reason = ReasonUrls
  /\ config.allowedPrefixes = <<>> /\ config.ignorePrefixes = <<>>
  /\ \E i \in 1..Len(results) : \E k \in 1..Len(results[i].links) :
       LET u == results[i].links[k]
       IN /\ u.host = seedUrl.host /\ u.q = 0 /\ ~u.frag
          /\ Len(u.path) = 2
          /\ ~isVisited(Cur, u)
          /\ u \notin enqueued

\* C30: after crawl() has returned, the collection it returned is never
\* changed again: no task appends a record to it.  On the normal path the
\* collection returned is the results array itself, so the array equals the
\* value it had at the return in every later state.
C30_ReturnedCollectionFrozen ==
  (retval.returned /\ retval.pages # <<ErrorRecord>>) => results = retval.pages

====
